---- MODULE Spec2Model ----
(***************************************************************************)
(* A model of sipbuild/generator/type_hints.py: the TypeHintManager of one *)
(* Specification object.  Hint texts are strings, indexed from 0 as in the *)
(* Python source; tree nodes live in a heap so that the sharing made by    *)
(* copy() and the assignments to node.next are visible.                    *)
(***************************************************************************)
EXTENDS Integers, Sequences, FiniteSets, TLC

VARIABLES texts, managed, heap, builds, result

vars == <<texts, managed, heap, builds, result>>

(***************************************************************************)
(* Bounds.                                                                 *)
(***************************************************************************)
\* The number of hint texts a caller registers beside the override hints.
MaxRegistered == 2

(***************************************************************************)
(* Python values.                                                          *)
(***************************************************************************)
\* None, where an index, a node or an entity is expected.
None == -1

\* text[i]
At(text, i) == SubSeq(text, i + 1, i + 1)

\* text[a:b]
Slice(text, a, b) == SubSeq(text, a + 1, b)

\* s.find(ch)
find(s, ch) ==
    LET hits == {k \in 0..(Len(s) - 1) : At(s, k) = ch}
    IN  IF hits = {} THEN -1 ELSE CHOOSE k \in hits : \A h \in hits : k <= h

\* A local variable: the value of F(v), with v evaluated once.
Let(v, F(_)) == CHOOSE y \in {F(x) : x \in {v}} : TRUE

\* sep.join(strs[k - 1:])
RECURSIVE join_from(_, _, _)
join_from(sep, strs, k) ==
    IF k > Len(strs) THEN ""
    ELSE IF k = Len(strs) THEN strs[k]
    ELSE strs[k] \o sep \o join_from(sep, strs, k + 1)

\* sep.join(strs)
join(sep, strs) == join_from(sep, strs, 1)

\* The types defined in the typing module.
TYPING_MODULE ==
    {"Any", "NoReturn", "Tuple", "Union", "Optional", "Callable", "Type",
     "Literal", "ClassVar", "Final", "Annotated", "AnyStr", "Protocol",
     "NamedTuple", "Dict", "List", "Set", "FrozenSet", "IO", "TextIO",
     "BinaryIO", "Pattern", "Match", "Text", "Iterable", "Iterator",
     "Generator", "Mapping", "Sequence"}

NodeType == {"TYPING", "CLASS", "ENUM", "OTHER"}

ParseState == {"REQUIRED", "PARSING", "PARSED"}

\* An Optional[List[TypeHintNode]]: None or a list of node ids.
NoChildren == [isNone |-> TRUE, list |-> <<>>]
Children(l) == [isNone |-> FALSE, list |-> l]

\* An Optional[Union[str, WrappedClass, WrappedEnum]].
NoDefinition == [kind |-> "none", str |-> "", ent |-> None]
StrDef(s) == [kind |-> "str", str |-> s, ent |-> None]
ClassDef(k) == [kind |-> "class", str |-> "", ent |-> k]
EnumDef(e) == [kind |-> "enum", str |-> "", ent |-> e]

TypeHintNode(type, children, definition) ==
    [type |-> type, children |-> children, definition |-> definition,
     next |-> None]

ManagedTypeHint(type_hint) ==
    [type_hint |-> type_hint, parse_state |-> "REQUIRED",
     rest_ref |-> [isNone |-> TRUE, str |-> ""], root |-> None]

(***************************************************************************)
(* The Specification object the manager works for: the classes, mapped     *)
(* types and enums of one set of bindings.  A scope is None (global), a    *)
(* class or a mapped type.                                                 *)
(***************************************************************************)
NoScope == [kind |-> "none", id |-> None]
ClassScope(k) == [kind |-> "class", id |-> k]
MappedScope(m) == [kind |-> "mapped", id |-> m]

NoHint == [isNone |-> TRUE, text |-> ""]
Hint(text) == [isNone |-> FALSE, text |-> text]

NoTypeHints == [isNone |-> TRUE, hint_in |-> NoHint, hint_out |-> NoHint]
TypeHints(hin, hout) == [isNone |-> FALSE, hint_in |-> hin, hint_out |-> hout]

Klass(name, py, scope, external, type_hints) ==
    [base_name |-> name, fq_py_name |-> py, scope |-> scope,
     external |-> external, type_hints |-> type_hints]

spec_classes ==
    << Klass("D", "D", NoScope, FALSE, TypeHints(Hint("int"), Hint("str"))),
       Klass("S", "S", NoScope, FALSE, TypeHints(NoHint, Hint("S"))),
       Klass("A", "A", NoScope, FALSE, TypeHints(NoHint, Hint("B"))),
       Klass("B", "B", NoScope, FALSE, TypeHints(NoHint, Hint("A"))),
       Klass("U", "U", NoScope, FALSE, TypeHints(NoHint, Hint("Union[a,b]"))),
       Klass("Outer", "Outer", NoScope, FALSE, NoTypeHints),
       Klass("Inner", "Outer.Inner", ClassScope(6), FALSE, NoTypeHints),
       Klass("Ext", "Ext", NoScope, TRUE, NoTypeHints) >>

MappedType(name, type_hints) ==
    [hasName |-> TRUE, name |-> name, type_hints |-> type_hints]

spec_mapped_types ==
    << MappedType("M", TypeHints(NoHint, Hint("M"))),
       MappedType("Mapped", NoTypeHints) >>

WrappedEnum(hasName, name, py, scope) ==
    [hasName |-> hasName, base_name |-> name, fq_py_name |-> py,
     scope |-> scope]

spec_enums ==
    << WrappedEnum(FALSE, "", "", NoScope),
       WrappedEnum(TRUE, "E", "E", NoScope),
       WrappedEnum(TRUE, "N", "Outer.N", ClassScope(6)),
       WrappedEnum(TRUE, "G", "Mapped.G", MappedScope(2)) >>

\* The texts of the override hints of the specification.  The parser that
\* builds the specification makes each of them with get_type_hint().
OverrideTexts ==
    LET hints == UNION ({ {spec_classes[i].type_hints.hint_in,
                           spec_classes[i].type_hints.hint_out} :
                              i \in DOMAIN spec_classes }
                        \cup { {spec_mapped_types[i].type_hints.hint_in,
                                spec_mapped_types[i].type_hints.hint_out} :
                              i \in DOMAIN spec_mapped_types })
    IN  {h.text : h \in {g \in hints : ~g.isNone}}

\* The hint texts that the callers of one run of the generator work with.
Bindings ==
    { {"Any", "Optional[Any]"},
      {"Union[]", "Union"},
      {"List[int", "List[[int]"},
      {"D", "List[D]"},
      {"S", "A", "Optional[S]"},
      {"M", "Mapped", "Mapped.G"},
      {"Union[a,b]", "Union[c,d,U]", "U"},
      {"Outer.E", "Mapped.E", "Outer.N"},
      {"Outer::Inner", "Outer.Inner"} }

(***************************************************************************)
(* The state a call works on and what a call gives back.  st.managed is    *)
(* self._managed_type_hints, st.heap the TypeHintNode objects by id (ids   *)
(* start at 1).  st.builds counts, per hint text, the calls of             *)
(* _parse_node() that _parse() makes for it; st.events records the calls   *)
(* of _lookup_type(); st.depth is the number of _parse() calls in progress *)
(* and st.maxdepth its maximum.                                            *)
(***************************************************************************)
NoErr == [kind |-> "none", what |-> "", text |-> "", pos |-> None]

\* raise UserException(f"type hint '{text}': ...")
UserException(what, text, pos) ==
    [kind |-> "UserException", what |-> what, text |-> text, pos |-> pos]

\* The TypeError that Python raises for len(None).
TypeError(what) ==
    [kind |-> "TypeError", what |-> what, text |-> "", pos |-> None]

Return(st, node) == [st |-> st, err |-> NoErr, node |-> node]

Raise(st, err) == [st |-> st, err |-> err, node |-> None]

\* The construction of a TypeHintNode object.
Alloc(st, node) ==
    Return([st EXCEPT !.heap = Append(@, node)], Len(st.heap) + 1)

strip_leading(text, start, end) ==
    LET stops == {k \in start..end : k = end \/ At(text, k) # " "}
    IN  IF start < end
        THEN CHOOSE k \in stops : \A h \in stops : k <= h
        ELSE start

strip_trailing(text, start, end) ==
    LET stops == {k \in start..end : k = start \/ At(text, k - 1) # " "}
    IN  IF end > start
        THEN CHOOSE k \in stops : \A h \in stops : k >= h
        ELSE end

append_child(st, children, new_child) ==
    [st |-> IF Len(children) > 1
            THEN [st EXCEPT !.heap[children[Len(children)]].next = new_child]
            ELSE st,
     children |-> Append(children, new_child)]

lookup_enum(name, scopes) ==
    LET hits == {e \in DOMAIN spec_enums :
                    /\ spec_enums[e].hasName
                    /\ spec_enums[e].base_name = name
                    /\ spec_enums[e].scope \in scopes}
    IN  IF hits = {} THEN None ELSE CHOOSE e \in hits : \A h \in hits : e <= h

lookup_class(name, scope) ==
    LET hits == {k \in DOMAIN spec_classes :
                    /\ spec_classes[k].scope = scope
                    /\ ~spec_classes[k].external
                    /\ spec_classes[k].base_name = name}
    IN  IF hits = {} THEN None ELSE CHOOSE k \in hits : \A h \in hits : k <= h

lookup_mapped_type(name) ==
    LET hits == {m \in DOMAIN spec_mapped_types :
                    /\ spec_mapped_types[m].hasName
                    /\ spec_mapped_types[m].name = name}
    IN  IF hits = {} THEN None ELSE CHOOSE m \in hits : \A h \in hits : m <= h

\* name[i:].replace('.', '::')
RECURSIVE replace_from(_, _)
replace_from(name, i) ==
    IF i >= Len(name) THEN ""
    ELSE (IF At(name, i) = "." THEN "::" ELSE At(name, i))
            \o replace_from(name, i + 1)

\* name.replace('.', '::')
replace_dots(name) == replace_from(name, 0)

\* s[from:].split('::')
RECURSIVE split_from(_, _)
split_from(s, from) ==
    Let({k \in from..(Len(s) - 2) : Slice(s, k, k + 2) = "::"}, LAMBDA seps :
        IF seps = {} THEN <<Slice(s, from, Len(s))>>
        ELSE Let(CHOOSE k \in seps : \A h \in seps : k <= h, LAMBDA k0 :
                <<Slice(s, from, k0)>> \o split_from(s, k0 + 2)))

\* ScopedName.parse(s): the parts of s between the '::' separators.
ScopedName_parse(s) == split_from(s, 0)

RECURSIVE parse_node(_, _, _, _, _)
RECURSIVE parse(_, _, _)

\* The for loop of _parse_node(): the index of the next ',' or ']' at depth
\* 0 in text[part_i:end], None when the loop runs to its end.
RECURSIVE next_part(_, _, _, _)
next_part(text, part_i, end, depth) ==
    IF part_i >= end THEN None
    ELSE IF At(text, part_i) = "[" THEN next_part(text, part_i + 1, end, depth + 1)
    ELSE IF At(text, part_i) = "]" /\ depth # 0
         THEN next_part(text, part_i + 1, end, depth - 1)
    ELSE IF At(text, part_i) \in {",", "]"} /\ depth = 0 THEN part_i
    ELSE next_part(text, part_i + 1, end, depth)

\* The while loop of _parse_node(): i is the index of the opening bracket
\* or of the comma before the next part.
RECURSIVE parse_parts(_, _, _, _, _, _)
parse_parts(st, out, text, i, end, children) ==
    Let(next_part(text, i + 1, end, 0), LAMBDA part_i :
        IF part_i = None
        THEN [st |-> st, err |-> NoErr, children |-> children]
        ELSE Let(parse_node(st, out, text, i + 1, part_i), LAMBDA r :
            IF r.err.kind # "none"
            THEN [st |-> r.st, err |-> r.err, children |-> children]
            ELSE IF r.node # None
            THEN Let(append_child(r.st, children, r.node), LAMBDA a :
                    parse_parts(a.st, out, text, part_i, end, a.children))
            ELSE parse_parts(r.st, out, text, part_i, end, children)))

\* The loops that flatten the unions among the children of a Union.
RECURSIVE flatten_grandchildren(_, _, _, _)
flatten_grandchildren(st, grandchildren, g, flattened) ==
    IF g > Len(grandchildren) THEN [st |-> st, children |-> flattened]
    ELSE Let(append_child(st, flattened, grandchildren[g]), LAMBDA a :
            flatten_grandchildren(a.st, grandchildren, g + 1, a.children))

RECURSIVE flatten(_, _, _, _)
flatten(st, children, c, flattened) ==
    IF c > Len(children) THEN [st |-> st, children |-> flattened]
    ELSE Let(st.heap[children[c]], LAMBDA child :
         Let(IF child.type = "TYPING" /\ child.definition = StrDef("Union")
             THEN flatten_grandchildren(st, child.children.list, 1, flattened)
             ELSE append_child(st, flattened, children[c]), LAMBDA a :
                flatten(a.st, children, c + 1, a.children)))

copy_type_hint(st, type_hint, out) ==
    Let(parse(st, type_hint.text, out), LAMBDA p :
    Let(p.st.managed[type_hint.text].root, LAMBDA root :
        IF p.err.kind # "none" THEN Raise(p.st, p.err)
        ELSE IF root = None THEN Return(p.st, None)
        ELSE Alloc(p.st, [p.st.heap[root] EXCEPT !.next = None])))

\* override_hint() without the test of the parse state.
override_hint_unguarded(st, type_hints, out) ==
    LET type_hint == IF out THEN type_hints.hint_out ELSE type_hints.hint_in
    IN  IF type_hints.isNone \/ type_hint.isNone
        THEN [use |-> "absent", type_hint |-> NoHint]
        ELSE [use |-> "copy", type_hint |-> type_hint]

\* The override hint of a class or mapped type for a direction, as
\* _lookup_type() uses it: "copy" when its tree is to be copied, "parsing"
\* when it is being parsed, "absent" when there is none.
override_hint(st, type_hints, out) ==
    LET type_hint == IF out THEN type_hints.hint_out ELSE type_hints.hint_in
    IN  IF type_hints.isNone \/ type_hint.isNone
        THEN [use |-> "absent", type_hint |-> NoHint]
        ELSE IF st.managed[type_hint.text].parse_state # "PARSING"
        THEN [use |-> "copy", type_hint |-> type_hint]
        ELSE [use |-> "parsing", type_hint |-> type_hint]

\* The last part of a name is a class: its override hint or a CLASS node.
\* The result says in .guard whether the override hint was being parsed.
class_node(st, klass, out) ==
    Let(override_hint(st, spec_classes[klass].type_hints, out), LAMBDA hint :
        IF hint.use = "copy"
        THEN [r |-> copy_type_hint(st, hint.type_hint, out), guard |-> "none"]
        ELSE [r |-> Alloc(st, TypeHintNode("CLASS", NoChildren, ClassDef(klass))),
              guard |-> IF hint.use = "parsing" THEN "class" ELSE "none"])

\* The last part of a name is a mapped type: its override hint or None.
mapped_type_node(st, mapped_type, out) ==
    Let(override_hint(st, spec_mapped_types[mapped_type].type_hints, out),
        LAMBDA hint :
        IF hint.use = "copy"
        THEN [r |-> copy_type_hint(st, hint.type_hint, out), guard |-> "none"]
        ELSE [r |-> Return(st, None),
              guard |-> IF hint.use = "parsing" THEN "mapped" ELSE "none"])

\* Nothing was found.
other_node(st, name) ==
    [r |-> Alloc(st, TypeHintNode("OTHER", NoChildren, StrDef(name))),
     guard |-> "none"]

\* One iteration of the loop of _lookup_type() and those after it.
RECURSIVE lookup_parts(_, _, _, _, _, _, _)
lookup_parts(st, name, out, scoped_name, part_i, scope_klass, scope_mapped_type) ==
    IF part_i >= Len(scoped_name) THEN other_node(st, name)
    ELSE
    Let(scoped_name[part_i + 1], LAMBDA part :
    Let((part_i + 1) = Len(scoped_name), LAMBDA is_last_part :
    Let(lookup_enum(part, {scope_klass, scope_mapped_type}), LAMBDA enum :
    Let(IF scope_klass = NoScope THEN lookup_mapped_type(part) ELSE None,
        LAMBDA mapped_type :
    Let(IF mapped_type # None THEN MappedScope(mapped_type)
        ELSE scope_mapped_type, LAMBDA next_mapped_type :
    Let(lookup_class(part, scope_klass), LAMBDA klass :
        IF enum # None
        THEN IF is_last_part
             THEN [r |-> Alloc(st, TypeHintNode("ENUM", NoChildren, EnumDef(enum))),
                   guard |-> "none"]
             ELSE other_node(st, name)
        ELSE IF scope_mapped_type # NoScope THEN other_node(st, name)
        ELSE IF mapped_type # None /\ is_last_part
        THEN mapped_type_node(st, mapped_type, out)
        ELSE IF next_mapped_type = NoScope
        THEN IF klass = None THEN other_node(st, name)
             ELSE IF is_last_part THEN class_node(st, klass, out)
             ELSE lookup_parts(st, name, out, scoped_name, part_i + 1,
                               ClassScope(klass), next_mapped_type)
        ELSE IF is_last_part THEN other_node(st, name)
        ELSE lookup_parts(st, name, out, scoped_name, part_i + 1, scope_klass,
                          next_mapped_type)))))))

\* _lookup_type(), and the record of the call in st.events.
lookup_type(st, name, out) ==
    Let(ScopedName_parse(replace_dots(name)), LAMBDA scoped_name :
    Let(lookup_parts(st, name, out, scoped_name, 0, NoScope, NoScope), LAMBDA l :
    Let(IF l.r.node = None THEN [type |-> "None", definition |-> NoDefinition]
        ELSE l.r.st.heap[l.r.node], LAMBDA node :
        [l.r EXCEPT !.st.events =
            @ \cup {[name |-> name, out |-> out, guard |-> l.guard,
                     raised |-> l.r.err.kind # "none",
                     type |-> node.type, definition |-> node.definition]}])))

\* The part of _parse_node() after the brackets: the node for a name and
\* its children.
named_node(st, out, text, name, children) ==
    IF name \in TYPING_MODULE
    THEN IF name = "Union"
         THEN IF children.isNone THEN Raise(st, TypeError("len(None)"))
              ELSE IF Len(children.list) = 0 THEN Return(st, None)
              ELSE Let(flatten(st, children.list, 1, <<>>), LAMBDA f :
                    Alloc(f.st, TypeHintNode("TYPING", Children(f.children),
                                             StrDef(name))))
         ELSE Alloc(st, TypeHintNode("TYPING", children, StrDef(name)))
    ELSE IF ~children.isNone
         THEN Raise(st, UserException("brackets are invalid", text, None))
         ELSE lookup_type(st, name, out)

\* The part of _parse_node() after the name and the brackets were found.
bracketed_node(st, out, text, top_level, name_start, name_end, children) ==
    IF name_start # name_end
    THEN named_node(st, out, text, Slice(text, name_start, name_end), children)
    ELSE IF top_level /\ (children.isNone \/ Len(children.list) = 0)
    THEN Raise(st, UserException("must have non-empty brackets", text, None))
    ELSE Alloc(st, TypeHintNode("TYPING", children, NoDefinition))

\* _parse_node(): end is None for the call that _parse() makes.
parse_node(st, out, text, start0, end0) ==
    Let(end0 = None, LAMBDA top_level :
    Let(strip_leading(text, start0, IF top_level THEN Len(text) ELSE end0),
        LAMBDA start :
    Let(strip_trailing(text, start, IF top_level THEN Len(text) ELSE end0),
        LAMBDA end :
    Let(find(Slice(text, start, end), "["), LAMBDA found :
        IF found < 0
        THEN bracketed_node(st, out, text, top_level, start, end, NoChildren)
        ELSE IF At(text, end - 1) # "]"
        THEN Raise(st, UserException("']' expected", text, end))
        ELSE Let(parse_parts(st, out, text, found + start, end, <<>>),
                 LAMBDA parts :
                IF parts.err.kind # "none" THEN Raise(parts.st, parts.err)
                ELSE bracketed_node(parts.st, out, text, top_level, start,
                                    strip_trailing(text, start, found + start),
                                    Children(parts.children)))))))

\* _parse(): the result has no node.
parse(st, text, out) ==
    IF st.managed[text].parse_state = "REQUIRED"
    THEN Let([st EXCEPT !.managed[text].parse_state = "PARSING",
                        !.builds[text] = @ + 1,
                        !.depth = @ + 1,
                        !.maxdepth = IF st.depth + 1 > @ THEN st.depth + 1 ELSE @],
             LAMBDA parsing :
         Let(parse_node(parsing, out, text, 0, None), LAMBDA r :
            IF r.err.kind # "none" THEN Raise(r.st, r.err)
            ELSE Return([r.st EXCEPT !.managed[text].root = r.node,
                                     !.managed[text].parse_state = "PARSED",
                                     !.depth = @ - 1],
                        None)))
    ELSE Return(st, None)

(***************************************************************************)
(* Rendering.                                                              *)
(***************************************************************************)
any_object(pep484) == IF pep484 THEN "typing.Any" ELSE "object"

maybe_any_object(hint, pep484) ==
    IF hint # "Any" THEN hint ELSE any_object(pep484)

\* ClassFormatter and EnumFormatter: the text of an entity in each mode.
Formatter(entity, pep484, ref) ==
    IF ref THEN ":sip:ref:<" \o entity.fq_py_name \o ">"
    ELSE entity.fq_py_name

RECURSIVE render_node(_, _, _, _)
render_node(h, node, pep484, ref) ==
    Let(h[node], LAMBDA n :
    Let(IF n.definition.kind = "none" THEN ""
        ELSE IF pep484 THEN "typing." \o n.definition.str
        ELSE n.definition.str, LAMBDA name :
        IF n.type = "TYPING"
        THEN IF ~n.children.isNone
             THEN Let([c \in DOMAIN n.children.list |->
                        render_node(h, n.children.list[c], pep484, ref)],
                      LAMBDA rendered :
                        name \o "[" \o join(", ", rendered) \o "]")
             ELSE name
        ELSE IF n.type = "CLASS"
        THEN Formatter(spec_classes[n.definition.ent], pep484, ref)
        ELSE IF n.type = "ENUM"
        THEN Formatter(spec_enums[n.definition.ent], pep484, ref)
        ELSE maybe_any_object(n.definition.str, pep484)))

\* _render(): the result has the string in .s.
render(st, text, out, pep484, ref) ==
    Let(parse(st, text, out), LAMBDA p :
    Let(p.st.managed[text].root, LAMBDA root :
        IF p.err.kind # "none" THEN [st |-> p.st, err |-> p.err, s |-> ""]
        ELSE [st |-> p.st, err |-> NoErr,
              s |-> IF root # None
                    THEN render_node(p.st.heap, root, pep484, ref)
                    ELSE maybe_any_object(text, pep484)]))

\* rest_ref()
rest_ref(st, text, out) ==
    IF ~st.managed[text].rest_ref.isNone
    THEN [st |-> st, err |-> NoErr, s |-> st.managed[text].rest_ref.str]
    ELSE Let(render(st, text, out, FALSE, TRUE), LAMBDA r :
            IF r.err.kind # "none" THEN r
            ELSE [r EXCEPT !.st.managed[text].rest_ref =
                                [isNone |-> FALSE, str |-> r.s]])

\* get_type_hint() without the lookup of the text: a new managed hint each
\* time.
get_type_hint_always_new(m, text) ==
    Let([t \in DOMAIN m \cup {text} |->
            IF t = text
            THEN ManagedTypeHint(Cardinality(DOMAIN m) + 1)
            ELSE m[t]], LAMBDA made :
        [managed |-> made, type_hint |-> made[text].type_hint])

\* get_type_hint(): a TypeHint object is the number of its creation.
get_type_hint(m, text) ==
    Let(IF text \in DOMAIN m THEN m
        ELSE [t \in DOMAIN m \cup {text} |->
                IF t = text
                THEN ManagedTypeHint(Cardinality(DOMAIN m) + 1)
                ELSE m[t]], LAMBDA made :
        [managed |-> made, type_hint |-> made[text].type_hint])

(***************************************************************************)
(* The manager as a state machine: a caller asks for hints and renders     *)
(* them, in any order.                                                     *)
(***************************************************************************)
\* The state a call starts from.
Entry(m, h, b) ==
    [managed |-> m, heap |-> h, builds |-> b, events |-> {}, depth |-> 0,
     maxdepth |-> 0]

Result(op, text, out, pep484, err, value, type_hint, st) ==
    [op |-> op, text |-> text, out |-> out, pep484 |-> pep484,
     status |-> IF err.kind = "none" THEN "ok" ELSE err.kind,
     err |-> err, value |-> value, type_hint |-> type_hint,
     events |-> st.events, maxdepth |-> st.maxdepth]

\* The manager of a specification whose override hints have been made.
RECURSIVE Registered(_)
Registered(made) ==
    IF made = {} THEN <<>>
    ELSE Let(CHOOSE x \in made : TRUE, LAMBDA t :
         Let(Registered(made \ {t}), LAMBDA m : get_type_hint(m, t).managed))

Init ==
    /\ texts \in Bindings
    /\ managed = Registered(OverrideTexts)
    /\ heap = <<>>
    /\ builds = [t \in OverrideTexts |-> 0]
    /\ result = Result("new", "", FALSE, FALSE, NoErr, "", None,
                       Entry(<<>>, <<>>, <<>>))

GetTypeHint(text) ==
    /\ \/ text \in DOMAIN managed
       \/ Cardinality(DOMAIN managed \ OverrideTexts) < MaxRegistered
    /\ \E g \in {get_type_hint(managed, text)} :
           /\ managed' = g.managed
           /\ builds' = [t \in DOMAIN g.managed |->
                            IF t \in DOMAIN builds THEN builds[t] ELSE 0]
           /\ result' = Result("get_type_hint", text, FALSE, FALSE, NoErr, "",
                               g.type_hint, Entry(<<>>, <<>>, <<>>))
    /\ UNCHANGED <<texts, heap>>

RestRef(text, out) ==
    /\ text \in DOMAIN managed
    /\ \E st \in {Entry(managed, heap, builds)} :
       \E r \in {rest_ref(st, text, out)} :
           /\ managed' = r.st.managed
           /\ heap' = r.st.heap
           /\ builds' = r.st.builds
           /\ result' = Result("rest_ref", text, out, FALSE, r.err, r.s, None,
                               r.st)
    /\ UNCHANGED texts

Render(text, out, pep484) ==
    /\ text \in DOMAIN managed
    /\ \E st \in {Entry(managed, heap, builds)} :
       \E r \in {render(st, text, out, pep484, FALSE)} :
           /\ managed' = r.st.managed
           /\ heap' = r.st.heap
           /\ builds' = r.st.builds
           /\ result' = Result("render", text, out, pep484, r.err, r.s, None,
                               r.st)
    /\ UNCHANGED texts

Next ==
    \/ \E text \in texts : GetTypeHint(text)
    \/ \E text \in texts, out \in BOOLEAN : RestRef(text, out)
    \/ \E text \in texts, out \in BOOLEAN, pep484 \in BOOLEAN :
            Render(text, out, pep484)

Spec == Init /\ [][Next]_vars

(***************************************************************************)
(* Properties.                                                             *)
(***************************************************************************)
Rendered == result.op \in {"render", "rest_ref"}

\* C1: every request for a hint text returns the one Hint object of that
\* text, the tree of a text is built at most once, and a parse state that
\* has left REQUIRED never returns to it.
C1_OneHintBuiltOnce ==
    /\ [](\A t \in DOMAIN managed : builds[t] <= 1)
    /\ [](result.op = "get_type_hint"
            => result.type_hint = managed[result.text].type_hint)
    /\ [][\A t \in DOMAIN managed :
            /\ t \in DOMAIN managed'
            /\ managed'[t].type_hint = managed[t].type_hint
            /\ managed[t].parse_state # "REQUIRED"
                => managed'[t].parse_state # "REQUIRED"]_vars

\* A hint that was parsed, rendered with its cross-reference cached, and
\* then requested again.
C1_Witness ==
    /\ result.op = "get_type_hint"
    /\ result.text \notin OverrideTexts
    /\ managed[result.text].parse_state = "PARSED"
    /\ ~managed[result.text].rest_ref.isNone
    /\ builds[result.text] = 1

\* The rendering of a hint by a manager that has rendered nothing yet.
FreshRender(text, out, pep484, ref) ==
    Let(Registered(OverrideTexts), LAMBDA made :
    Let(get_type_hint(made, text).managed, LAMBDA m :
    Let(Entry(m, <<>>, [t \in DOMAIN m |-> 0]), LAMBDA st :
        render(st, text, out, pep484, ref))))

\* C2: a rendering for a direction is the rendering that a fresh manager
\* gives for that direction, whatever was rendered before.
C2_DirectionSelectsOverride ==
    (Rendered /\ result.status = "ok")
        => result.value = FreshRender(result.text, result.out, result.pep484,
                                      result.op = "rest_ref").s

\* C3: "Any" renders as "object" in qualified mode and as "typing.Any" in
\* annotation mode, alone and as the argument of a generic.
C3_AnyIsObject ==
    result.op = "render" =>
        /\ result.text = "Any"
            => result.value = (IF result.pep484 THEN "typing.Any" ELSE "object")
        /\ result.text = "Optional[Any]"
            => result.value = (IF result.pep484
                               THEN "typing.Optional[typing.Any]"
                               ELSE "Optional[object]")

\* The texts that the parser rejects with a structural error.
Malformed(text) ==
    FreshRender(text, FALSE, FALSE, FALSE).err.kind = "UserException"

\* C4: every rendering of a malformed hint fails with the structural error,
\* and leaves no managed hint in the PARSING state.
C4_MalformedAlwaysFails ==
    (Rendered /\ Malformed(result.text)) =>
        /\ result.status = "UserException"
        /\ \A t \in DOMAIN managed : managed[t].parse_state # "PARSING"

\* The classes whose outgoing override hint is their own name.
SelfHinted ==
    {k \in DOMAIN spec_classes :
        /\ spec_classes[k].scope = NoScope
        /\ ~spec_classes[k].external
        /\ spec_classes[k].type_hints.hint_out = Hint(spec_classes[k].base_name)}

\* C5: a call that returns has left every hint whose parse it started in
\* the PARSED state, with no more parses nested than there are hints, and
\* the hint that names a class whose outgoing override hint is its own name
\* has a Class-reference to that class as its tree.
C5_CyclesEndParsed ==
    /\ [](result.maxdepth <= Cardinality(DOMAIN managed))
    /\ [](\A k \in SelfHinted :
            LET m == managed[spec_classes[k].base_name]
            IN  m.parse_state = "PARSED"
                    => /\ m.root # None
                       /\ heap[m.root].type = "CLASS"
                       /\ heap[m.root].definition = ClassDef(k))
    /\ [][result'.status = "ok" =>
            \A t \in DOMAIN managed :
                managed[t].parse_state = "REQUIRED"
                    => managed'[t].parse_state \in {"REQUIRED", "PARSED"}]_vars

\* The call that parsed the mutual cycle of A and B, after the self-loop of
\* S was parsed for the outgoing direction.
C5_Witness ==
    /\ result.text = "A" /\ result.out /\ result.status = "ok"
    /\ result.maxdepth = 2
    /\ \E e \in result.events : e.guard = "class" /\ e.name = "B"
    /\ managed["A"].parse_state = "PARSED"
    /\ managed["B"].parse_state = "PARSED"
    /\ managed["S"].parse_state = "PARSED"
    /\ \E e \in DOMAIN heap : heap[e].definition = ClassDef(2)

\* C6: "Union[]" and "Union" parse to no tree and render as their text.
C6_EmptyUnionIsNoType ==
    (Rendered /\ result.text \in {"Union[]", "Union"}) =>
        /\ result.status = "ok"
        /\ result.value = result.text
        /\ managed[result.text].parse_state = "PARSED"
        /\ managed[result.text].root = None

\* The positions of the opening brackets of a text that no closing bracket
\* matches.
RECURSIVE Unmatched(_, _, _)
Unmatched(text, i, open) ==
    IF i >= Len(text) THEN {open[k] : k \in DOMAIN open}
    ELSE IF At(text, i) = "[" THEN Unmatched(text, i + 1, Append(open, i))
    ELSE IF At(text, i) = "]" /\ Len(open) > 0
         THEN Unmatched(text, i + 1, SubSeq(open, 1, Len(open) - 1))
    ELSE Unmatched(text, i + 1, open)

\* C7: a text with an unmatched opening bracket never has a tree, and its
\* rendering fails with an error that names the text and the position of
\* an unmatched opening bracket.
C7_UnmatchedBracketFails ==
    /\ \A t \in DOMAIN managed :
            Unmatched(t, 0, <<>>) # {} => managed[t].root = None
    /\ (Rendered /\ Unmatched(result.text, 0, <<>>) # {}) =>
            /\ result.status = "UserException"
            /\ result.err.text = result.text
            /\ result.err.pos \in Unmatched(result.text, 0, <<>>)

\* C8: a lookup that finds the override hint of a mapped type being parsed
\* gives a Class-reference or an Unresolved node.
C8_MappedTypeFallsThrough ==
    \A e \in result.events :
        e.guard = "mapped" => e.type \in {"CLASS", "OTHER"}

\* The nodes that a node reaches through children and next.
RECURSIVE Reachable(_, _)
Reachable(h, nodes) ==
    LET more == nodes
                \cup UNION {{h[n].children.list[c] : c \in DOMAIN h[n].children.list} :
                                n \in nodes}
                \cup {h[n].next : n \in {x \in nodes : h[x].next # None}}
    IN  IF more = nodes THEN nodes ELSE Reachable(h, more)

\* C9: no call changes a node that the tree of a PARSED hint reaches.
C9_ParsedTreesAreFrozen ==
    [][\A t \in DOMAIN managed :
        (managed[t].parse_state = "PARSED" /\ managed[t].root # None)
            => \A n \in Reachable(heap, {managed[t].root}) :
                    heap'[n] = heap[n]]_vars

\* The scope that the parts before the last part of a name lead to.
RECURSIVE PrefixScope(_, _)
PrefixScope(parts, scope) ==
    LET m == lookup_mapped_type(Head(parts))
        k == lookup_class(Head(parts), scope)
    IN  IF Len(parts) <= 1 THEN scope
        ELSE IF scope = NoScope /\ m # None THEN PrefixScope(Tail(parts), MappedScope(m))
        ELSE IF scope.kind # "mapped" /\ k # None
             THEN PrefixScope(Tail(parts), ClassScope(k))
        ELSE [kind |-> "unresolved", id |-> None]

\* C10: a name resolves to an enum only of the scope its prefix leads to.
C10_EnumOfPrefixScope ==
    \A e \in result.events :
        e.type = "ENUM" =>
            spec_enums[e.definition.ent].scope =
                PrefixScope(ScopedName_parse(replace_dots(e.name)), NoScope)

====
